---- MODULE Spec2Model ----
(***************************************************************************)
(* A model of pyTooling.Graph (src/pyTooling/Graph/__init__.py): the       *)
(* object heap of Graph, Vertex and Edge instances, the constructors, the  *)
(* four link operations and the enumerations of Vertex, the two vertex     *)
(* generators IterateVertexesBFS and IterateVertexesDFS, the side-tables,  *)
(* Graph.Name and the algorithm methods that are not provided; and of      *)
(* SemVersion (src/pyTooling/Versioning/__init__.py): its two constructors *)
(* and its comparisons.                                                    *)
(*                                                                         *)
(* Objects are identified by handles: the index of the object in the       *)
(* sequence of all live objects of its class (graphs, vertices, edges).    *)
(* An object whose constructor raised is garbage and gets no handle. A     *)
(* call is one action; its result carries the heap at the moment it        *)
(* returned or raised, so whatever a failing call had already stored       *)
(* stays stored.                                                           *)
(*                                                                         *)
(* The specifications share the actions and differ in what the client      *)
(* calls and passes:                                                       *)
(*   Spec   vertex identities and graphs, default edge arguments;          *)
(*   SpecE  anonymous vertices of one graph, edge weights and values,      *)
(*          and edges constructed directly;                                *)
(*   SpecT  default arguments, then one BFS or DFS generator consumed      *)
(*          step by step (the graph is not mutated while it runs);         *)
(*   SpecA  a small graph and the side-tables of its entities;             *)
(*   SpecTL SpecT with a consumer that iterates a traversal to its end;    *)
(*   SpecN  a small graph, arguments of the wrong class, Graph.Name and    *)
(*          the algorithm methods;                                         *)
(*   SpecK  graphs, vertices and edges constructed directly, arguments of  *)
(*          the wrong class among them;                                    *)
(*   SpecV  SemVersion instances constructed from numbers, and compared;   *)
(*   SpecS  SemVersion instances constructed from version strings.         *)
(***************************************************************************)
EXTENDS Integers, Sequences, FiniteSets, TLC

(* Python's None, for attribute values (identities, weights, values).      *)
None == "None"

(* The null handle: the `graph = None` default argument of Vertex(...),    *)
(* and "no object" as the result of a call that raised.                    *)
Null == 0

(* ------------------------------ bounds --------------------------------- *)
MaxGraphs == 2
MaxVertices == 2
MaxEdges == 2
TMaxGraphs == 1
TMaxVertices == 3
TMaxEdges == 2
NMaxVertices == 2
NMaxEdges == 1
MaxPart == 1
AMaxVertices == 1
AMaxEdges == 1
AMaxEntries == 2

(* --------------------------- input domains ----------------------------- *)
(* Non-None vertex identities, edge weights, edge values and edge          *)
(* identities the client passes. The sets are disjoint, so that a value    *)
(* stored in the wrong field shows.                                        *)
VertexIDs == {"a", "b"}
EdgeWeights == {"w"}
EdgeValues == {"x"}
EdgeIDs == {"i"}

(* Graph names: the str instances a client assigns, and an instance of     *)
(* another class (None is one more).                                       *)
Names == {"m", "n"}
NotAStr == "<int>"

(* Keys and values of the side-tables.                                     *)
Keys == {"j", "k"}
Values == {"p", "q"}

VARIABLES
    graphs,     \* graph handle  -> Graph instance
    vertices,   \* vertex handle -> Vertex instance
    edges,      \* edge handle   -> Edge instance
    last,       \* the last call of the client and how it ended
    written,    \* history: the side-table assignments still in effect
    bfs,        \* the frame of one IterateVertexesBFS generator
    dfs,        \* the frame of one IterateVertexesDFS generator
    sem         \* the SemVersion instances of the client and its last call

vars == <<graphs, vertices, edges, last, written, bfs, dfs, sem>>

(* The object heap as one value, threaded through the constructors.        *)
Heap == [graphs |-> graphs, vertices |-> vertices, edges |-> edges]

EmptyDict == [k \in {} |-> Null]

(* ------------------------------- Graph --------------------------------- *)
(* Graph.__init__: name, two vertex stores, two edge stores, side-table.   *)
GraphInit(H) ==
    [H EXCEPT !.graphs = Append(@, [name              |-> None,
                                    verticesWithID    |-> EmptyDict,
                                    verticesWithoutID |-> <<>>,
                                    edgesWithID       |-> EmptyDict,
                                    edgesWithoutID    |-> <<>>,
                                    dict              |-> EmptyDict])]

(* Graph.__len__                                                           *)
GraphLen(H, g) ==
    Len(H.graphs[g].verticesWithoutID) + Cardinality(DOMAIN H.graphs[g].verticesWithID)

(* isinstance(value, str)                                                  *)
IsStr(value) == value \in Names

(* Graph.Name, the getter                                                  *)
Name(H, self) == [err |-> "ok", ret |-> H.graphs[self].name, H |-> H]

(* A mutant of SetName: the class of the value is not tested.              *)
SetNameUnchecked(H, self, value) ==
    [err |-> "ok", ret |-> None, H |-> [H EXCEPT !.graphs[self].name = value]]

(* Graph.Name, the setter                                                  *)
SetName(H, self, value) ==
    IF ~IsStr(value) THEN [err |-> "TypeError", ret |-> None, H |-> H]
    ELSE [err |-> "ok", ret |-> None, H |-> [H EXCEPT !.graphs[self].name = value]]

(* Graph(name): the name is stored as it is passed.                        *)
NewGraphInit(H, name) ==
    LET H1 == GraphInit(H)
    IN  [err |-> "ok", ret |-> Len(H1.graphs),
         H   |-> [H1 EXCEPT !.graphs[Len(H1.graphs)].name = name]]

(* ------------------------------- Vertex -------------------------------- *)
(* A mutant of VertexInit: the identity is not looked up before it is      *)
(* stored, so a second vertex with the identity replaces the first.        *)
VertexInitUnchecked(H, vertexID, graph) ==
    LET H1   == IF graph = Null THEN GraphInit(H) ELSE H
        g    == IF graph = Null THEN Len(H1.graphs) ELSE graph
        self == Len(H.vertices) + 1
        obj  == [graph |-> g, id |-> vertexID, inbound |-> <<>>, outbound |-> <<>>,
                 value |-> None, dict |-> EmptyDict]
    IN  IF vertexID = None
        THEN [err |-> "ok", ret |-> self,
              H   |-> [H1 EXCEPT !.graphs[g].verticesWithoutID = Append(@, self),
                                 !.vertices = Append(@, obj)]]
        ELSE [err |-> "ok", ret |-> self,
              H   |-> [H1 EXCEPT !.graphs[g].verticesWithID = (vertexID :> self) @@ @,
                                 !.vertices = Append(@, obj)]]

(* A mutant of VertexInit: a vertex with an identity is also appended to   *)
(* the list of vertices without one.                                       *)
VertexInitStoredTwice(H, vertexID, graph) ==
    LET H1   == IF graph = Null THEN GraphInit(H) ELSE H
        g    == IF graph = Null THEN Len(H1.graphs) ELSE graph
        self == Len(H.vertices) + 1
        obj  == [graph |-> g, id |-> vertexID, inbound |-> <<>>, outbound |-> <<>>,
                 value |-> None, dict |-> EmptyDict]
    IN  IF vertexID = None
        THEN [err |-> "ok", ret |-> self,
              H   |-> [H1 EXCEPT !.graphs[g].verticesWithoutID = Append(@, self),
                                 !.vertices = Append(@, obj)]]
        ELSE IF vertexID \in DOMAIN H1.graphs[g].verticesWithID
        THEN [err |-> "ValueError", ret |-> Null, H |-> H]
        ELSE [err |-> "ok", ret |-> self,
              H   |-> [H1 EXCEPT !.graphs[g].verticesWithID = (vertexID :> self) @@ @,
                                 !.graphs[g].verticesWithoutID = Append(@, self),
                                 !.vertices = Append(@, obj)]]

(* A mutant of VertexInit: the graph of a vertex constructed without one   *)
(* is created once and shared, as with a default argument Graph().         *)
VertexInitDefaultShared(H, vertexID, graph) ==
    LET H1   == IF graph = Null /\ Len(H.graphs) = 0 THEN GraphInit(H) ELSE H
        g    == IF graph = Null THEN 1 ELSE graph
        self == Len(H.vertices) + 1
        obj  == [graph |-> g, id |-> vertexID, inbound |-> <<>>, outbound |-> <<>>,
                 value |-> None, dict |-> EmptyDict]
    IN  IF vertexID = None
        THEN [err |-> "ok", ret |-> self,
              H   |-> [H1 EXCEPT !.graphs[g].verticesWithoutID = Append(@, self),
                                 !.vertices = Append(@, obj)]]
        ELSE IF vertexID \in DOMAIN H1.graphs[g].verticesWithID
        THEN [err |-> "ValueError", ret |-> Null, H |-> H]
        ELSE [err |-> "ok", ret |-> self,
              H   |-> [H1 EXCEPT !.graphs[g].verticesWithID = (vertexID :> self) @@ @,
                                 !.vertices = Append(@, obj)]]

(* A mutant of VertexInit: every vertex is appended to the list of         *)
(* vertices without identity, and none is looked up or indexed.            *)
VertexInitAnonymousOnly(H, vertexID, graph) ==
    LET H1   == IF graph = Null THEN GraphInit(H) ELSE H
        g    == IF graph = Null THEN Len(H1.graphs) ELSE graph
        self == Len(H.vertices) + 1
        obj  == [graph |-> g, id |-> vertexID, inbound |-> <<>>, outbound |-> <<>>,
                 value |-> None, dict |-> EmptyDict]
    IN  [err |-> "ok", ret |-> self,
         H   |-> [H1 EXCEPT !.graphs[g].verticesWithoutID = Append(@, self),
                            !.vertices = Append(@, obj)]]

(* Vertex.__init__(vertexID, data, graph). The result is the heap when the *)
(* constructor returns or raises, the exception ("ok": none) and the       *)
(* handle of the new vertex. The clients modelled here leave data at its   *)
(* default, None.                                                          *)
VertexInit(H, vertexID, graph) ==
    LET H1   == IF graph = Null THEN GraphInit(H) ELSE H
        g    == IF graph = Null THEN Len(H1.graphs) ELSE graph
        self == Len(H.vertices) + 1
        obj  == [graph |-> g, id |-> vertexID, inbound |-> <<>>, outbound |-> <<>>,
                 value |-> None, dict |-> EmptyDict]
    IN  IF vertexID = None
        THEN [err |-> "ok", ret |-> self,
              H   |-> [H1 EXCEPT !.graphs[g].verticesWithoutID = Append(@, self),
                                 !.vertices = Append(@, obj)]]
        ELSE IF vertexID \in DOMAIN H1.graphs[g].verticesWithID
        THEN [err |-> "ValueError", ret |-> Null, H |-> H]
        ELSE [err |-> "ok", ret |-> self,
              H   |-> [H1 EXCEPT !.graphs[g].verticesWithID = (vertexID :> self) @@ @,
                                 !.vertices = Append(@, obj)]]

(* -------------------------------- Edge --------------------------------- *)
(* An argument that is no Vertex: an instance of another class (a str, an  *)
(* int, a Graph). None is the other one, Null.                             *)
NotAVertex == -1

(* isinstance(x, Vertex)                                                   *)
IsVertex(H, x) == x \in 1 .. Len(H.vertices)

(* A mutant of EdgeInit: the graphs of the two vertices are not compared.  *)
EdgeInitAnyGraph(H, source, destination, edgeID, weight, value) ==
    LET self == Len(H.edges) + 1
        obj  == [id |-> edgeID, source |-> source, destination |-> destination,
                 weight |-> weight, value |-> value, dict |-> EmptyDict]
    IN  [err |-> "ok", ret |-> self, H |-> [H EXCEPT !.edges = Append(@, obj)]]

(* Edge.__init__(source, destination, edgeID, weight, value). The first    *)
(* statement reads source._graph and destination._graph: of the arguments  *)
(* modelled only a Vertex has the attribute, for any other the read raises *)
(* AttributeError. The isinstance tests come after it.                     *)
EdgeInit(H, source, destination, edgeID, weight, value) ==
    LET self == Len(H.edges) + 1
        obj  == [id |-> edgeID, source |-> source, destination |-> destination,
                 weight |-> weight, value |-> value, dict |-> EmptyDict]
    IN  IF ~IsVertex(H, source) \/ ~IsVertex(H, destination)
        THEN [err |-> "AttributeError", ret |-> Null, H |-> H]
        ELSE IF H.vertices[source].graph # H.vertices[destination].graph
        THEN [err |-> "Exception", ret |-> Null, H |-> H]
        ELSE IF ~IsVertex(H, source)
        THEN [err |-> "TypeError", ret |-> Null, H |-> H]
        ELSE IF ~IsVertex(H, destination)
        THEN [err |-> "TypeError", ret |-> Null, H |-> H]
        ELSE [err |-> "ok", ret |-> self, H |-> [H EXCEPT !.edges = Append(@, obj)]]

(* self._outbound.append(edge)                                             *)
AppendOutbound(H, v, e) == [H EXCEPT !.vertices[v].outbound = Append(@, e)]

(* A mutant of AppendInbound: the edge is appended to the outbound list.   *)
AppendInboundToOutbound(H, v, e) == [H EXCEPT !.vertices[v].outbound = Append(@, e)]

(* vertex._inbound.append(edge)                                            *)
AppendInbound(H, v, e) == [H EXCEPT !.vertices[v].inbound = Append(@, e)]

(* A mutant of LinkToVertex: an argument that is no Vertex is skipped      *)
(* without an exception.                                                   *)
LinkToVertexSilent(H, self, vertex, edgeWeight, edgeValue) ==
    IF ~IsVertex(H, vertex) THEN [err |-> "ok", ret |-> Null, H |-> H]
    ELSE LET r == EdgeInit(H, self, vertex, edgeWeight, edgeValue, None)
         IN  IF r.err # "ok" THEN r
             ELSE [r EXCEPT !.H = AppendInbound(AppendOutbound(r.H, self, r.ret), vertex, r.ret)]

(* Vertex.LinkToVertex(vertex, edgeWeight, edgeValue): the edge is built   *)
(* by Edge(self, vertex, edgeWeight, edgeValue), whose third and fourth    *)
(* positional parameters are edgeID and weight; value keeps its default.   *)
LinkToVertex(H, self, vertex, edgeWeight, edgeValue) ==
    IF ~IsVertex(H, vertex) THEN [err |-> "Exception", ret |-> Null, H |-> H]
    ELSE LET r == EdgeInit(H, self, vertex, edgeWeight, edgeValue, None)
         IN  IF r.err # "ok" THEN r
             ELSE [r EXCEPT !.H = AppendInbound(AppendOutbound(r.H, self, r.ret), vertex, r.ret)]

(* A mutant of LinkFromVertex: the edge is appended to the lists as in     *)
(* LinkToVertex.                                                           *)
LinkFromVertexListsSwapped(H, self, vertex, edgeWeight, edgeValue) ==
    IF ~IsVertex(H, vertex) THEN [err |-> "Exception", ret |-> Null, H |-> H]
    ELSE LET r == EdgeInit(H, vertex, self, edgeWeight, edgeValue, None)
         IN  IF r.err # "ok" THEN r
             ELSE [r EXCEPT !.H = AppendInbound(AppendOutbound(r.H, self, r.ret), vertex, r.ret)]

(* Vertex.LinkFromVertex(vertex, edgeWeight, edgeValue)                    *)
LinkFromVertex(H, self, vertex, edgeWeight, edgeValue) ==
    IF ~IsVertex(H, vertex) THEN [err |-> "Exception", ret |-> Null, H |-> H]
    ELSE LET r == EdgeInit(H, vertex, self, edgeWeight, edgeValue, None)
         IN  IF r.err # "ok" THEN r
             ELSE [r EXCEPT !.H = AppendInbound(AppendOutbound(r.H, vertex, r.ret), self, r.ret)]

(* Vertex.LinkToNewVertex(vertexID, vertexData, edgeWeight, edgeValue):    *)
(* returns the new vertex.                                                 *)
LinkToNewVertex(H, self, vertexID, edgeWeight, edgeValue) ==
    LET v == VertexInit(H, vertexID, H.vertices[self].graph)
    IN  IF v.err # "ok" THEN v
        ELSE LET r == EdgeInit(v.H, self, v.ret, edgeWeight, edgeValue, None)
             IN  IF r.err # "ok" THEN r
                 ELSE [err |-> "ok", ret |-> v.ret,
                       H |-> AppendInbound(AppendOutbound(r.H, self, r.ret), v.ret, r.ret)]

(* A mutant of LinkFromNewVertex: the new vertex is constructed without    *)
(* the graph argument, hence in a graph of its own.                        *)
LinkFromNewVertexNoGraph(H, self, vertexID, edgeWeight, edgeValue) ==
    LET v == VertexInit(H, vertexID, Null)
    IN  IF v.err # "ok" THEN v
        ELSE LET r == EdgeInit(v.H, v.ret, self, edgeWeight, edgeValue, None)
             IN  IF r.err # "ok" THEN r
                 ELSE [err |-> "ok", ret |-> v.ret,
                       H |-> AppendInbound(AppendOutbound(r.H, v.ret, r.ret), self, r.ret)]

(* Vertex.LinkFromNewVertex(vertexID, vertexData, edgeWeight, edgeValue)   *)
LinkFromNewVertex(H, self, vertexID, edgeWeight, edgeValue) ==
    LET v == VertexInit(H, vertexID, H.vertices[self].graph)
    IN  IF v.err # "ok" THEN v
        ELSE LET r == EdgeInit(v.H, v.ret, self, edgeWeight, edgeValue, None)
             IN  IF r.err # "ok" THEN r
                 ELSE [err |-> "ok", ret |-> v.ret,
                       H |-> AppendInbound(AppendOutbound(r.H, v.ret, r.ret), self, r.ret)]

(* Vertex.__len__: the number of outbound edges.                           *)
VertexLen(H, self) == Len(H.vertices[self].outbound)

(* A mutant of IsRoot: the outbound list is tested.                        *)
IsRootByOutbound(H, self) == Len(H.vertices[self].outbound) = 0

(* Vertex.IsRoot()                                                         *)
IsRoot(H, self) == Len(H.vertices[self].inbound) = 0

(* Vertex.IsLeaf()                                                         *)
IsLeaf(H, self) == Len(H.vertices[self].outbound) = 0

(* The four enumerations of Vertex are generators with one for loop; the   *)
(* value of each operator is the sequence a generator yields when it is    *)
(* consumed to its end. Every call creates a new generator.                *)
(* Vertex.IterateOutboundEdges()                                           *)
IterateOutboundEdges(H, self) ==
    [i \in 1 .. Len(H.vertices[self].outbound) |-> H.vertices[self].outbound[i]]

(* Vertex.IterateInboundEdges()                                            *)
IterateInboundEdges(H, self) ==
    [i \in 1 .. Len(H.vertices[self].inbound) |-> H.vertices[self].inbound[i]]

(* A mutant of IterateSuccessorVertexes: the source of the edge is yielded. *)
IterateSuccessorVertexesBySource(H, self) ==
    [i \in 1 .. Len(H.vertices[self].outbound) |->
        H.edges[H.vertices[self].outbound[i]].source]

(* Vertex.IterateSuccessorVertexes()                                       *)
IterateSuccessorVertexes(H, self) ==
    [i \in 1 .. Len(H.vertices[self].outbound) |->
        H.edges[H.vertices[self].outbound[i]].destination]

(* Vertex.IteratePredecessorVertexes()                                     *)
IteratePredecessorVertexes(H, self) ==
    [i \in 1 .. Len(H.vertices[self].inbound) |->
        H.edges[H.vertices[self].inbound[i]].source]

(* ------------------------- the client's calls -------------------------- *)
VertexHandles == 1 .. Len(vertices)
GraphHandles == 1 .. Len(graphs)
EdgeHandles == 1 .. Len(edges)

VertexIDArgs == VertexIDs \cup {None}
EdgeWeightArgs == EdgeWeights \cup {None}
EdgeValueArgs == EdgeValues \cup {None}
EdgeIDArgs == EdgeIDs \cup {None}

(* What a client passes and how many objects it creates: vertex           *)
(* identities and graphs (Construction), the default arguments only        *)
(* (Defaults), or edge weights and edge values (EdgeArguments). others are *)
(* the arguments that are no Vertex passed where a Vertex is expected.     *)
Construction ==
    [maxGraphs |-> MaxGraphs, maxVertices |-> MaxVertices, maxEdges |-> MaxEdges,
     ids |-> VertexIDArgs, weights |-> {None}, values |-> {None}, others |-> {}]

Defaults ==
    [maxGraphs |-> TMaxGraphs, maxVertices |-> TMaxVertices, maxEdges |-> TMaxEdges,
     ids |-> {None}, weights |-> {None}, values |-> {None}, others |-> {}]

EdgeArguments ==
    [Defaults EXCEPT !.weights = EdgeWeightArgs, !.values = EdgeValueArgs]

(* The default arguments for a graph, a vertex and an edge that carry      *)
(* side-tables (Small), and the default arguments together with arguments  *)
(* of the wrong class (Misuse).                                            *)
Small ==
    [Defaults EXCEPT !.maxVertices = AMaxVertices, !.maxEdges = AMaxEdges]

Misuse ==
    [Defaults EXCEPT !.maxVertices = NMaxVertices, !.maxEdges = NMaxEdges,
                     !.others = {Null, NotAVertex}]

(* No generator is running: the graph is not mutated during a traversal.   *)
Idle == bfs.pc = "idle" /\ dfs.pc = "idle"

WithinBounds(P, H) ==
    /\ Len(H.graphs) <= P.maxGraphs
    /\ Len(H.vertices) <= P.maxVertices
    /\ Len(H.edges) <= P.maxEdges

(* The heap and the call record after a call that ended as r; w and x are  *)
(* the edge weight and edge value the client passed, None when the call    *)
(* takes none.                                                             *)
Store(P, op, w, x, r) ==
    /\ WithinBounds(P, r.H)
    /\ graphs' = r.H.graphs
    /\ vertices' = r.H.vertices
    /\ edges' = r.H.edges
    /\ last' = [op |-> op, err |-> r.err, edgeWeight |-> w, edgeValue |-> x]
    /\ UNCHANGED <<bfs, dfs, sem>>

Return(P, op, w, x, r) == Store(P, op, w, x, r) /\ UNCHANGED written

NewVertex(P) ==
    /\ Idle
    /\ \E vertexID \in P.ids, graph \in GraphHandles \cup {Null} :
          Return(P, "Vertex", None, None, VertexInit(Heap, vertexID, graph))

CallLinkToVertex(P) ==
    /\ Idle
    /\ \E self \in VertexHandles, vertex \in VertexHandles \cup P.others,
          w \in P.weights, x \in P.values :
          Return(P, "LinkToVertex", w, x, LinkToVertex(Heap, self, vertex, w, x))

CallLinkFromVertex(P) ==
    /\ Idle
    /\ \E self \in VertexHandles, vertex \in VertexHandles \cup P.others,
          w \in P.weights, x \in P.values :
          Return(P, "LinkFromVertex", w, x, LinkFromVertex(Heap, self, vertex, w, x))

CallLinkToNewVertex(P) ==
    /\ Idle
    /\ \E self \in VertexHandles, vertexID \in P.ids,
          w \in P.weights, x \in P.values :
          Return(P, "LinkToNewVertex", w, x, LinkToNewVertex(Heap, self, vertexID, w, x))

CallLinkFromNewVertex(P) ==
    /\ Idle
    /\ \E self \in VertexHandles, vertexID \in P.ids,
          w \in P.weights, x \in P.values :
          Return(P, "LinkFromNewVertex", w, x, LinkFromNewVertex(Heap, self, vertexID, w, x))

(* Edge(source, destination, edgeID, weight, value), called by the client. *)
NewEdge(P) ==
    /\ Idle
    /\ \E source \in VertexHandles \cup P.others,
          destination \in VertexHandles \cup P.others,
          edgeID \in EdgeIDArgs, w \in P.weights, x \in P.values :
          Return(P, "Edge", w, x, EdgeInit(Heap, source, destination, edgeID, w, x))

(* Every call a client can make to build a graph.                          *)
Build(P) ==
    \/ NewVertex(P)
    \/ CallLinkToVertex(P)
    \/ CallLinkFromVertex(P)
    \/ CallLinkToNewVertex(P)
    \/ CallLinkFromNewVertex(P)

(* --------------------------- IterateVertexesBFS ------------------------ *)
(* The frame of a generator: pc is where it is suspended or about to run,  *)
(* out the vertices it has yielded so far. i is the position of the        *)
(* running `for edge in ..._outbound` loop in the list it iterates.        *)
NoFrame ==
    [pc |-> "idle", self |-> Null, visited |-> {}, queue |-> <<>>, stack |-> <<>>,
     vertex |-> Null, i |-> 0, out |-> <<>>]

(* A mutant of AppendLeft: deque.append(x), the right end.                 *)
AppendLeftAtRight(q, x) == q \o <<x>>

(* deque.appendleft(x)                                                     *)
AppendLeft(q, x) == <<x>> \o q

(* deque.pop(): the right end.                                             *)
PopRight(q) == [item |-> q[Len(q)], rest |-> SubSeq(q, 1, Len(q) - 1)]

(* A mutant of BFSFirstLoopBody: the queued destination is not marked.     *)
BFSFirstLoopBodyUnmarked(f, edge) ==
    LET destinationVertex == edges[edge].destination
    IN  IF destinationVertex \notin f.visited
        THEN [f EXCEPT !.queue = AppendLeft(@, destinationVertex)]
        ELSE f

(* The body of the first for loop, for one edge: a destination that is not *)
(* visited is queued and marked.                                           *)
BFSFirstLoopBody(f, edge) ==
    LET destinationVertex == edges[edge].destination
    IN  IF destinationVertex \notin f.visited
        THEN [f EXCEPT !.queue = AppendLeft(@, destinationVertex),
                       !.visited = @ \cup {destinationVertex}]
        ELSE f

(* A mutant of BFSLoopBody: the destination is queued and not marked.      *)
BFSLoopBodyUnmarked(f, edge) ==
    LET destinationVertex == edges[edge].destination
    IN  IF destinationVertex \notin f.visited
        THEN [f EXCEPT !.queue = AppendLeft(@, destinationVertex)]
        ELSE f

(* The body of the for loop inside `while queue`, for one edge.            *)
BFSLoopBody(f, edge) ==
    LET destinationVertex == edges[edge].destination
        f1 == IF destinationVertex \notin f.visited
              THEN [f EXCEPT !.queue = AppendLeft(@, destinationVertex)]
              ELSE f
    IN  [f1 EXCEPT !.visited = @ \cup {destinationVertex}]

(* A mutant of BFSWhile: the vertex is read at the right end of the queue  *)
(* and left there, as queue[-1].                                           *)
BFSWhilePeek(f) ==
    IF Len(f.queue) = 0
    THEN [f EXCEPT !.pc = "done"]
    ELSE [f EXCEPT !.vertex = f.queue[Len(f.queue)],
                   !.out = Append(@, f.queue[Len(f.queue)]), !.pc = "yield230"]

(* `while queue:` and, when the queue is not empty, pop and yield.         *)
BFSWhile(f) ==
    IF Len(f.queue) = 0
    THEN [f EXCEPT !.pc = "done"]
    ELSE LET p == PopRight(f.queue)
         IN  [f EXCEPT !.queue = p.rest, !.vertex = p.item,
                       !.out = Append(@, p.item), !.pc = "yield230"]

(* The first next(): the generator runs to `yield self`.                   *)
BFSStart ==
    /\ Idle
    /\ \E self \in VertexHandles :
          bfs' = [NoFrame EXCEPT !.pc = "yield220", !.self = self,
                                 !.vertex = self, !.out = <<self>>]
    /\ UNCHANGED <<graphs, vertices, edges, last, written, dfs, sem>>

(* Resumed after `yield self`: visited.add(self), and the first loop       *)
(* begins.                                                                 *)
BFSResumeFirst ==
    /\ bfs.pc = "yield220"
    /\ bfs' = [bfs EXCEPT !.visited = @ \cup {bfs.self}, !.i = 1, !.pc = "for222"]
    /\ UNCHANGED <<graphs, vertices, edges, last, written, dfs, sem>>

(* One iteration of `for edge in self._outbound`, or its end and the       *)
(* while loop's test.                                                      *)
BFSFirstLoop ==
    /\ bfs.pc = "for222"
    /\ bfs' = IF bfs.i <= Len(vertices[bfs.self].outbound)
              THEN [BFSFirstLoopBody(bfs, vertices[bfs.self].outbound[bfs.i])
                        EXCEPT !.i = bfs.i + 1]
              ELSE BFSWhile(bfs)
    /\ UNCHANGED <<graphs, vertices, edges, last, written, dfs, sem>>

(* Resumed after `yield vertex`: visited.add(vertex), and the inner loop   *)
(* begins.                                                                 *)
BFSResume ==
    /\ bfs.pc = "yield230"
    /\ bfs' = [bfs EXCEPT !.visited = @ \cup {bfs.vertex}, !.i = 1, !.pc = "for232"]
    /\ UNCHANGED <<graphs, vertices, edges, last, written, dfs, sem>>

(* One iteration of `for edge in vertex._outbound`, or its end and the     *)
(* while loop's test.                                                      *)
BFSLoop ==
    /\ bfs.pc = "for232"
    /\ bfs' = IF bfs.i <= Len(vertices[bfs.vertex].outbound)
              THEN [BFSLoopBody(bfs, vertices[bfs.vertex].outbound[bfs.i])
                        EXCEPT !.i = bfs.i + 1]
              ELSE BFSWhile(bfs)
    /\ UNCHANGED <<graphs, vertices, edges, last, written, dfs, sem>>

(* --------------------------- IterateVertexesDFS ------------------------ *)
(* A list iterator: the vertex whose _outbound list it iterates and the    *)
(* position of the next item.                                              *)
Iter(v) == [vertex |-> v, i |-> 1]

(* A mutant of DFSTryBody: the destination is yielded and not marked.      *)
DFSTryBodyUnmarked(f, edge) ==
    LET destinationVertex == edges[edge].destination
    IN  IF destinationVertex \notin f.visited
        THEN [f EXCEPT !.vertex = destinationVertex,
                       !.out = Append(@, destinationVertex),
                       !.pc = "yield252"]
        ELSE f

(* The try block for an edge that next(stack[-1]) returned: an unvisited   *)
(* destination is marked and yielded.                                      *)
DFSTryBody(f, edge) ==
    LET destinationVertex == edges[edge].destination
    IN  IF destinationVertex \notin f.visited
        THEN [f EXCEPT !.visited = @ \cup {destinationVertex},
                       !.vertex = destinationVertex,
                       !.out = Append(@, destinationVertex),
                       !.pc = "yield252"]
        ELSE f

(* except StopIteration: stack.pop(), and return when the stack is empty.  *)
DFSExcept(f) ==
    LET rest == SubSeq(f.stack, 1, Len(f.stack) - 1)
    IN  [f EXCEPT !.stack = rest, !.pc = IF Len(rest) = 0 THEN "done" ELSE "while"]

(* A mutant of DFSPush: no iterator is pushed.                             *)
DFSPushNothing(f) == [f EXCEPT !.pc = "while"]

(* After `yield destinationVertex`: its iterator is pushed when it has     *)
(* outbound edges.                                                         *)
DFSPush(f) ==
    IF Len(vertices[f.vertex].outbound) # 0
    THEN [f EXCEPT !.stack = Append(@, Iter(f.vertex)), !.pc = "while"]
    ELSE [f EXCEPT !.pc = "while"]

(* The first next(): the generator runs to `yield self`.                   *)
DFSStart ==
    /\ Idle
    /\ \E self \in VertexHandles :
          dfs' = [NoFrame EXCEPT !.pc = "yield242", !.self = self,
                                 !.vertex = self, !.out = <<self>>]
    /\ UNCHANGED <<graphs, vertices, edges, last, written, bfs, sem>>

(* Resumed after `yield self`: visited.add(self) and the first iterator.   *)
DFSResumeFirst ==
    /\ dfs.pc = "yield242"
    /\ dfs' = [dfs EXCEPT !.visited = @ \cup {dfs.self},
                          !.stack = Append(@, Iter(dfs.self)), !.pc = "while"]
    /\ UNCHANGED <<graphs, vertices, edges, last, written, bfs, sem>>

(* A mutant of DFSWhile: the edge that is taken is removed from the        *)
(* outbound list, as _outbound.pop(0).                                     *)
DFSWhileConsuming ==
    /\ dfs.pc = "while"
    /\ LET top == dfs.stack[Len(dfs.stack)]
           list == vertices[top.vertex].outbound
       IN  IF list # <<>>
           THEN /\ dfs' = DFSTryBody(dfs, Head(list))
                /\ vertices' = [vertices EXCEPT ![top.vertex].outbound = Tail(@)]
           ELSE /\ dfs' = DFSExcept(dfs)
                /\ UNCHANGED vertices
    /\ UNCHANGED <<graphs, edges, last, written, bfs, sem>>

(* One pass of `while True`: next(stack[-1]) returns an edge and advances  *)
(* the iterator, or raises StopIteration.                                  *)
DFSWhile ==
    /\ dfs.pc = "while"
    /\ LET top == dfs.stack[Len(dfs.stack)]
           list == vertices[top.vertex].outbound
       IN  dfs' = IF top.i <= Len(list)
                  THEN DFSTryBody([dfs EXCEPT !.stack[Len(dfs.stack)].i = top.i + 1],
                                  list[top.i])
                  ELSE DFSExcept(dfs)
    /\ UNCHANGED <<graphs, vertices, edges, last, written, bfs, sem>>

(* Resumed after `yield destinationVertex`.                                *)
DFSResume ==
    /\ dfs.pc = "yield252"
    /\ dfs' = DFSPush(dfs)
    /\ UNCHANGED <<graphs, vertices, edges, last, written, bfs, sem>>

(* ----------------------------- side-tables ----------------------------- *)
(* Vertex, Edge and Graph each keep a dictionary _dict behind __getitem__, *)
(* __setitem__ and __delitem__; the three classes have the same three      *)
(* bodies. An entity is the class store ("graphs", "vertices", "edges")    *)
(* and the handle of the instance.                                         *)
Entities(H) ==
    {[kind |-> "graphs", self |-> g] : g \in 1 .. Len(H.graphs)}
    \cup {[kind |-> "vertices", self |-> v] : v \in 1 .. Len(H.vertices)}
    \cup {[kind |-> "edges", self |-> e] : e \in 1 .. Len(H.edges)}

(* self._dict                                                              *)
Dict(H, e) == H[e.kind][e.self].dict

(* A mutant of GetItem: a key that is absent reads as None, as _dict.get.  *)
GetItemOrNone(H, e, key) ==
    IF key \in DOMAIN Dict(H, e)
    THEN [err |-> "ok", ret |-> Dict(H, e)[key], H |-> H]
    ELSE [err |-> "ok", ret |-> None, H |-> H]

(* __getitem__(key): return self._dict[key]                                *)
GetItem(H, e, key) ==
    IF key \in DOMAIN Dict(H, e)
    THEN [err |-> "ok", ret |-> Dict(H, e)[key], H |-> H]
    ELSE [err |-> "KeyError", ret |-> None, H |-> H]

(* A mutant of SetItem: a key that is present keeps its value, as          *)
(* _dict.setdefault.                                                       *)
SetItemDefault(H, e, key, value) ==
    [err |-> "ok", ret |-> None,
     H   |-> [H EXCEPT ![e.kind][e.self].dict = @ @@ (key :> value)]]

(* __setitem__(key, value): self._dict[key] = value                        *)
SetItem(H, e, key, value) ==
    [err |-> "ok", ret |-> None,
     H   |-> [H EXCEPT ![e.kind][e.self].dict = (key :> value) @@ @]]

(* __delitem__(key): del self._dict[key]                                   *)
DelItem(H, e, key) ==
    IF key \in DOMAIN Dict(H, e)
    THEN [err |-> "ok", ret |-> None,
          H   |-> [H EXCEPT ![e.kind][e.self].dict = [k \in DOMAIN @ \ {key} |-> @[k]]]]
    ELSE [err |-> "KeyError", ret |-> None, H |-> H]

(* The number of entries of all side-tables.                               *)
Entries(H) ==
    Cardinality({t \in Entities(H) \X Keys : t[2] \in DOMAIN Dict(H, t[1])})

(* The assignments to key of entity e that are in effect.                  *)
Written(e, key) == {t \in written : t.entity = e /\ t.key = key}

CallSetItem(P) ==
    /\ Idle
    /\ \E e \in Entities(Heap), key \in Keys, value \in Values :
          LET r == SetItem(Heap, e, key, value)
          IN  /\ Entries(r.H) <= AMaxEntries
              /\ Store(P, "__setitem__", None, None, r)
              /\ written' = (written \ Written(e, key))
                               \cup {[entity |-> e, key |-> key, value |-> value]}

CallGetItem(P) ==
    /\ Idle
    /\ \E e \in Entities(Heap), key \in Keys :
          Return(P, "__getitem__", None, None, GetItem(Heap, e, key))

CallDelItem(P) ==
    /\ Idle
    /\ \E e \in Entities(Heap), key \in Keys :
          LET r == DelItem(Heap, e, key)
          IN  /\ Store(P, "__delitem__", None, None, r)
              /\ written' = IF r.err = "ok" THEN written \ Written(e, key) ELSE written

(* ------------------- algorithms that are not provided ------------------ *)
(* raise NotImplementedError()                                             *)
NotImplemented(H) == [err |-> "NotImplementedError", ret |-> Null, H |-> H]

(* Vertex.ShortestPathToByHops(destination)                                *)
ShortestPathToByHops(H, self, destination) == NotImplemented(H)

(* Vertex.ShortestPathToByWeight(destination)                              *)
ShortestPathToByWeight(H, self, destination) == NotImplemented(H)

(* Vertex.PathExistsTo(destination)                                        *)
PathExistsTo(H, self, destination) == NotImplemented(H)

(* Vertex.MaximumFlowTo(destination)                                       *)
MaximumFlowTo(H, self, destination) == NotImplemented(H)

(* Graph.IterateBFS()                                                      *)
IterateBFS(H, self) == NotImplemented(H)

(* Graph.IterateDFS(): the body defines a local class Iterator, whose      *)
(* attribute visited is a list of len(self) times False, and ends; the     *)
(* call returns None.                                                      *)
IterateDFS(H, self) ==
    LET visited == [i \in 1 .. GraphLen(H, self) |-> FALSE]
    IN  [err |-> "ok", ret |-> Null, H |-> H]

(* Graph.CheckForNegativeCycles()                                          *)
CheckForNegativeCycles(H, self) == NotImplemented(H)

(* Graph.IsStronglyConnected()                                             *)
IsStronglyConnected(H, self) == NotImplemented(H)

(* Graph.GetStronglyConnectedComponents()                                  *)
GetStronglyConnectedComponents(H, self) == NotImplemented(H)

(* Graph.TravelingSalesmanProblem()                                        *)
TravelingSalesmanProblem(H, self) == NotImplemented(H)

(* Graph.GetBridges()                                                      *)
GetBridges(H, self) == NotImplemented(H)

(* Graph.GetArticulationPoints()                                           *)
GetArticulationPoints(H, self) == NotImplemented(H)

(* Graph.MinimumSpanningTree()                                             *)
MinimumSpanningTree(H, self) == NotImplemented(H)

VertexAlgorithms ==
    {"ShortestPathToByHops", "ShortestPathToByWeight", "PathExistsTo", "MaximumFlowTo"}

GraphAlgorithms ==
    {"IterateBFS", "IterateDFS", "CheckForNegativeCycles", "IsStronglyConnected",
     "GetStronglyConnectedComponents", "TravelingSalesmanProblem", "GetBridges",
     "GetArticulationPoints", "MinimumSpanningTree"}

(* self.<op>(destination), for a vertex                                    *)
VertexAlgorithm(op, H, self, destination) ==
    CASE op = "ShortestPathToByHops"   -> ShortestPathToByHops(H, self, destination)
      [] op = "ShortestPathToByWeight" -> ShortestPathToByWeight(H, self, destination)
      [] op = "PathExistsTo"           -> PathExistsTo(H, self, destination)
      [] op = "MaximumFlowTo"          -> MaximumFlowTo(H, self, destination)

(* self.<op>(), for a graph                                                *)
GraphAlgorithm(op, H, self) ==
    CASE op = "IterateBFS"                     -> IterateBFS(H, self)
      [] op = "IterateDFS"                     -> IterateDFS(H, self)
      [] op = "CheckForNegativeCycles"         -> CheckForNegativeCycles(H, self)
      [] op = "IsStronglyConnected"            -> IsStronglyConnected(H, self)
      [] op = "GetStronglyConnectedComponents" -> GetStronglyConnectedComponents(H, self)
      [] op = "TravelingSalesmanProblem"       -> TravelingSalesmanProblem(H, self)
      [] op = "GetBridges"                     -> GetBridges(H, self)
      [] op = "GetArticulationPoints"          -> GetArticulationPoints(H, self)
      [] op = "MinimumSpanningTree"            -> MinimumSpanningTree(H, self)

CallVertexAlgorithm(P) ==
    /\ Idle
    /\ \E op \in VertexAlgorithms, self \in VertexHandles, destination \in VertexHandles :
          Return(P, op, None, None, VertexAlgorithm(op, Heap, self, destination))

CallGraphAlgorithm(P) ==
    /\ Idle
    /\ \E op \in GraphAlgorithms, self \in GraphHandles :
          Return(P, op, None, None, GraphAlgorithm(op, Heap, self))

(* ------------------------------ Graph.Name ----------------------------- *)
NameArgs == Names \cup {None, NotAStr}

CallName(P) ==
    /\ Idle
    /\ \E self \in GraphHandles :
          Return(P, "Name", None, None, Name(Heap, self))

CallSetName(P) ==
    /\ Idle
    /\ \E self \in GraphHandles, value \in NameArgs :
          Return(P, "Name.setter", None, None, SetName(Heap, self, value))

(* ------------------------------ SemVersion ----------------------------- *)
(* src/pyTooling/Versioning/__init__.py. An instance is the record of its  *)
(* attributes major, minor, patch, build and flags.                        *)
(* SemVersion.__init__(major, minor, patch, build)                         *)
SemVersion(major, minor, patch, build) ==
    [major |-> major, minor |-> minor, patch |-> patch, build |-> build,
     flags |-> "Clean"]

(* An operand that is no SemVersion.                                       *)
NotASemVersion == [class |-> "str"]

(* isinstance(other, SemVersion)                                           *)
IsSemVersion(other) == "major" \in DOMAIN other

(* The result of a comparison that returned ret, or raised TypeError.      *)
Returned(ret) == [err |-> "ok", ret |-> ret]
TypeError == [err |-> "TypeError", ret |-> FALSE]

(* SemVersion.__eq__(other)                                                *)
SemEq(self, other) ==
    IF ~IsSemVersion(other) THEN TypeError
    ELSE Returned(/\ self.major = other.major
                  /\ self.minor = other.minor
                  /\ self.patch = other.patch
                  /\ self.build = other.build)

(* SemVersion.__ne__(other)                                                *)
SemNe(self, other) ==
    IF ~IsSemVersion(other) THEN TypeError
    ELSE Returned(~SemEq(self, other).ret)

(* SemVersion.__compare(left, right): "True", "False" or None.             *)
SemCompare(left, right) ==
    IF left.major < right.major THEN "True"
    ELSE IF left.major > right.major THEN "False"
    ELSE IF left.minor < right.minor THEN "True"
    ELSE IF left.minor > right.minor THEN "False"
    ELSE IF left.patch < right.patch THEN "True"
    ELSE IF left.patch > right.patch THEN "False"
    ELSE IF left.build < right.build THEN "True"
    ELSE IF left.build > right.build THEN "False"
    ELSE None

(* SemVersion.__lt__(other)                                                *)
SemLt(self, other) ==
    IF ~IsSemVersion(other) THEN TypeError
    ELSE LET result == SemCompare(self, other)
         IN  Returned(IF result # None THEN result = "True" ELSE FALSE)

(* A mutant of SemLe: equal versions compare as in __lt__.                 *)
SemLeAsLt(self, other) ==
    IF ~IsSemVersion(other) THEN TypeError
    ELSE LET result == SemCompare(self, other)
         IN  Returned(IF result # None THEN result = "True" ELSE FALSE)

(* SemVersion.__le__(other)                                                *)
SemLe(self, other) ==
    IF ~IsSemVersion(other) THEN TypeError
    ELSE LET result == SemCompare(self, other)
         IN  Returned(IF result # None THEN result = "True" ELSE TRUE)

(* SemVersion.__gt__(other)                                                *)
SemGt(self, other) ==
    IF ~IsSemVersion(other) THEN TypeError
    ELSE Returned(~SemLe(self, other).ret)

(* SemVersion.__ge__(other)                                                *)
SemGe(self, other) ==
    IF ~IsSemVersion(other) THEN TypeError
    ELSE Returned(~SemLt(self, other).ret)

Comparisons == {"__eq__", "__ne__", "__lt__", "__le__", "__gt__", "__ge__"}

(* self <op> other                                                         *)
Comparison(op, self, other) ==
    CASE op = "__eq__" -> SemEq(self, other)
      [] op = "__ne__" -> SemNe(self, other)
      [] op = "__lt__" -> SemLt(self, other)
      [] op = "__le__" -> SemLe(self, other)
      [] op = "__gt__" -> SemGt(self, other)
      [] op = "__ge__" -> SemGe(self, other)

(* The client keeps its versions in the variables a and b.                 *)
VersionNames == {"a", "b"}
Parts == 0 .. MaxPart
Bound == {sem.env[n] : n \in DOMAIN sem.env}

NoGraphCall == UNCHANGED <<graphs, vertices, edges, last, written, bfs, dfs>>

(* n = SemVersion(major, minor, patch, build)                              *)
NewSemVersion ==
    /\ \E n \in VersionNames, major \in Parts, minor \in Parts,
          patch \in Parts, build \in Parts :
          sem' = [env |-> (n :> SemVersion(major, minor, patch, build)) @@ sem.env,
                  op |-> "SemVersion", err |-> "ok", ret |-> FALSE]
    /\ NoGraphCall

(* self <op> other, for the versions of the client and for an operand of   *)
(* another class.                                                          *)
CompareSemVersions ==
    /\ \E op \in Comparisons, self \in Bound, other \in Bound \cup {NotASemVersion} :
          LET r == Comparison(op, self, other)
          IN  sem' = [sem EXCEPT !.op = op, !.err = r.err, !.ret = r.ret]
    /\ NoGraphCall

(* Graph(name), called by the client.                                      *)
NewGraph(P) ==
    /\ Idle
    /\ \E name \in NameArgs :
          Return(P, "Graph", None, None, NewGraphInit(Heap, name))

(* ----------------------- SemVersion(versionString) --------------------- *)
(* A str is the sequence of its characters. NoString is the argument None: *)
(* its one item is no character.                                           *)
NoString == <<None>>

Digits == <<"0", "1", "2", "3", "4", "5", "6", "7", "8", "9">>

IsDigit(c) == \E i \in 1 .. Len(Digits) : Digits[i] = c

DigitValue(c) == (CHOOSE i \in 1 .. Len(Digits) : Digits[i] = c) - 1

RECURSIVE IntValue(_)
IntValue(s) ==
    IF s = <<>> THEN 0
    ELSE 10 * IntValue(SubSeq(s, 1, Len(s) - 1)) + DigitValue(s[Len(s)])

(* int(s), for a str of letters, digits and dots: ValueError unless s is a *)
(* non-empty str of digits.                                                *)
IntOf(s) ==
    IF s # <<>> /\ \A i \in 1 .. Len(s) : IsDigit(s[i])
    THEN [err |-> "ok", ret |-> IntValue(s)]
    ELSE [err |-> "ValueError", ret |-> 0]

(* s.split(".")                                                            *)
RECURSIVE Split(_)
Split(s) ==
    IF \A i \in 1 .. Len(s) : s[i] # "."
    THEN <<s>>
    ELSE LET i == CHOOSE i \in 1 .. Len(s) :
                     s[i] = "." /\ \A j \in 1 .. i - 1 : s[j] # "."
         IN  <<SubSeq(s, 1, i - 1)>> \o Split(SubSeq(s, i + 1, Len(s)))

(* s.startswith(prefixes), for a tuple of prefixes                         *)
StartsWith(s, prefixes) ==
    \E p \in prefixes : Len(s) >= Len(p) /\ SubSeq(s, 1, Len(p)) = p

(* s[n:]                                                                   *)
From(s, n) == SubSeq(s, n + 1, Len(s))

(* SemVersion.__init__(versionString). The attributes that are not         *)
(* assigned keep the value of the class attribute, 0.                      *)
SemVersionInit(versionString) ==
    IF versionString = <<>> THEN [err |-> "ValueError", ret |-> Null]
    ELSE IF versionString = NoString THEN [err |-> "ValueError", ret |-> Null]
    ELSE LET stripped ==
                 IF StartsWith(versionString,
                               {<<"V">>, <<"v">>, <<"I">>, <<"i">>, <<"R">>, <<"r">>})
                 THEN From(versionString, 1)
                 ELSE IF StartsWith(versionString, {<<"r", "e", "v">>, <<"R", "E", "V">>})
                 THEN From(versionString, 3)
                 ELSE versionString
             split  == Split(stripped)
             length == Len(split)
             major  == IntOf(split[1])
             minor  == IF length >= 2 THEN IntOf(split[2]) ELSE [err |-> "ok", ret |-> 0]
             patch  == IF length >= 3 THEN IntOf(split[3]) ELSE [err |-> "ok", ret |-> 0]
             build  == IF length >= 4 THEN IntOf(split[4]) ELSE [err |-> "ok", ret |-> 0]
         IN  IF \E part \in {major, minor, patch, build} : part.err # "ok"
             THEN [err |-> "ValueError", ret |-> Null]
             ELSE [err |-> "ok",
                   ret |-> SemVersion(major.ret, minor.ret, patch.ret, build.ret)]

(* The version strings of the client: an optional prefix and one to four   *)
(* numbers joined by dots, the empty str and None.                         *)
Prefixes ==
    {<<>>, <<"V">>, <<"v">>, <<"I">>, <<"i">>, <<"R">>, <<"r">>,
     <<"r", "e", "v">>, <<"R", "E", "V">>}

PartLists == UNION {[1 .. n -> Parts] : n \in 1 .. 4}

(* str(n)                                                                  *)
RECURSIVE Numeral(_)
Numeral(n) ==
    IF n < 10 THEN <<Digits[n + 1]>>
    ELSE Numeral(n \div 10) \o <<Digits[(n % 10) + 1]>>

(* ".".join(str(n) for n in parts)                                         *)
RECURSIVE Join(_)
Join(parts) ==
    IF Len(parts) = 1 THEN Numeral(parts[1])
    ELSE Join(SubSeq(parts, 1, Len(parts) - 1)) \o <<".">> \o Numeral(parts[Len(parts)])

VersionStrings ==
    {prefix \o Join(parts) : prefix \in Prefixes, parts \in PartLists}
    \cup {<<>>, NoString}

(* n = SemVersion(versionString)                                           *)
ParseSemVersion ==
    /\ \E n \in VersionNames, versionString \in VersionStrings :
          LET r == SemVersionInit(versionString)
          IN  sem' = [env |-> IF r.err = "ok" THEN (n :> r.ret) @@ sem.env ELSE sem.env,
                      op |-> "SemVersion(versionString)", err |-> r.err, ret |-> FALSE]
    /\ NoGraphCall

(* --------------------------- specifications ---------------------------- *)
Init ==
    /\ graphs = <<>>
    /\ vertices = <<>>
    /\ edges = <<>>
    /\ last = [op |-> "none", err |-> "ok", edgeWeight |-> None, edgeValue |-> None]
    /\ written = {}
    /\ sem = [env |-> EmptyDict, op |-> "none", err |-> "ok", ret |-> FALSE]
    /\ bfs = NoFrame
    /\ dfs = NoFrame

Next == Build(Construction)

Spec == Init /\ [][Next]_vars

(* A client builds a graph with default arguments and then consumes one   *)
(* generator of one of its vertices.                                       *)
NextT ==
    \/ Build(Defaults)
    \/ BFSStart
    \/ BFSResumeFirst
    \/ BFSFirstLoop
    \/ BFSResume
    \/ BFSLoop
    \/ DFSStart
    \/ DFSResumeFirst
    \/ DFSWhile
    \/ DFSResume

SpecT == Init /\ [][NextT]_vars

(* The steps of a generator that was started: the consumer of a traversal  *)
(* keeps calling next() until the generator is exhausted.                  *)
Consume ==
    \/ BFSResumeFirst
    \/ BFSFirstLoop
    \/ BFSResume
    \/ BFSLoop
    \/ DFSResumeFirst
    \/ DFSWhile
    \/ DFSResume

SpecTL == Init /\ [][NextT]_vars /\ WF_vars(Consume)

(* A client builds a graph of anonymous vertices, passing edge weights and *)
(* edge values.                                                            *)
NextE == Build(EdgeArguments) \/ NewEdge(EdgeArguments)

SpecE == Init /\ [][NextE]_vars

NextA ==
    \/ NewVertex(Small)
    \/ CallLinkToVertex(Small)
    \/ CallSetItem(Small)
    \/ CallGetItem(Small)
    \/ CallDelItem(Small)

SpecA == Init /\ [][NextA]_vars

NextN ==
    \/ Build(Misuse)
    \/ CallVertexAlgorithm(Misuse)
    \/ CallGraphAlgorithm(Misuse)
    \/ CallName(Misuse)
    \/ CallSetName(Misuse)

SpecN == Init /\ [][NextN]_vars

(* A client constructs graphs, vertices and edges directly, with arguments *)
(* of the wrong class among them, and assigns names.                       *)
NextK ==
    \/ NewGraph(Misuse)
    \/ NewVertex(Misuse)
    \/ NewEdge(Misuse)
    \/ CallSetName(Misuse)

SpecK == Init /\ [][NextK]_vars

NextV == NewSemVersion \/ CompareSemVersions

SpecV == Init /\ [][NextV]_vars

NextS == ParseSemVersion

SpecS == Init /\ [][NextS]_vars

(* ======================================================================= *)
(*                          Vocabulary of the claims                       *)
(* ======================================================================= *)
Range(seq) == {seq[k] : k \in 1 .. Len(seq)}

NoDuplicates(seq) == \A j, k \in 1 .. Len(seq) : j # k => seq[j] # seq[k]

(* How often x occurs in seq.                                              *)
Count(seq, x) == Cardinality({k \in 1 .. Len(seq) : seq[k] = x})

Min(S) == CHOOSE m \in S : \A n \in S : m <= n

(* The destinations of v's outbound edges.                                 *)
Successors(v) ==
    {edges[vertices[v].outbound[k]].destination : k \in 1 .. Len(vertices[v].outbound)}

RECURSIVE Closure(_)
Closure(S) ==
    LET T == S \cup UNION {Successors(v) : v \in S}
    IN  IF T = S THEN S ELSE Closure(T)

(* The vertices reachable from s along outbound edges, s included.         *)
Reachable(s) == Closure({s})

RECURSIVE Hops(_, _, _, _)
Hops(frontier, seen, d, v) ==
    IF v \in frontier THEN d
    ELSE IF frontier = {} THEN -1
    ELSE LET next == (UNION {Successors(u) : u \in frontier}) \ seen
         IN  Hops(next, seen \cup next, d + 1, v)

(* The minimum number of edges on a path from s to v; -1 when there is     *)
(* none.                                                                   *)
Dist(s, v) == Hops({s}, {s}, 0, v)

(* The position in v's outbound list of the first edge to b.               *)
FirstEdgeTo(v, b) ==
    Min({k \in 1 .. Len(vertices[v].outbound) :
            edges[vertices[v].outbound[k]].destination = b})

(* The positions in the yielded sequence of the vertices with an edge to   *)
(* the vertex yielded at position j.                                       *)
PredecessorPositions(out, j) == {k \in 1 .. Len(out) : out[j] \in Successors(out[k])}

(* The depth-first preorder from v, by recursion: v, then for each         *)
(* outbound edge of v in insertion order the whole exploration of its      *)
(* destination, when that is not visited yet. acc is the sequence visited  *)
(* so far.                                                                 *)
RECURSIVE Preorder(_, _), Explore(_, _, _)
Preorder(v, acc) == Explore(v, 1, Append(acc, v))

Explore(v, k, acc) ==
    IF k > Len(vertices[v].outbound) THEN acc
    ELSE LET d == edges[vertices[v].outbound[k]].destination
         IN  Explore(v, k + 1, IF d \in Range(acc) THEN acc ELSE Preorder(d, acc))

(* ======================================================================= *)
(*                                 Claims                                  *)
(* ======================================================================= *)

(* C1: a fully consumed s.IterateVertexesBFS() has yielded exactly the     *)
(* vertices reachable from s along outbound edges, each of them once.      *)
C1_BFSYieldsReachableOnce ==
    bfs.pc = "done" =>
        /\ Range(bfs.out) = Reachable(bfs.self)
        /\ NoDuplicates(bfs.out)

(* A finished BFS over parallel edges to one vertex, in a graph that also  *)
(* holds a vertex that cannot be reached from the start.                   *)
C1_Witness ==
    /\ bfs.pc = "done"
    /\ Len(bfs.out) = 2
    /\ Len(vertices[bfs.self].outbound) = 2
    /\ VertexHandles \ Reachable(bfs.self) # {}

VerticesOf(H, g) == {v \in 1 .. Len(H.vertices) : H.vertices[v].graph = g}

(* How often vertex v is stored in graph g of heap H.                      *)
StoredIn(H, g, v) ==
    Count(H.graphs[g].verticesWithoutID, v)
    + Cardinality({k \in DOMAIN H.graphs[g].verticesWithID :
                      H.graphs[g].verticesWithID[k] = v})

(* Heap H2 is heap H and exactly one new edge e from u to v: e is once in  *)
(* u's outbound list, once in v's inbound list and in no other list, and   *)
(* the edges of H are in H2 as they were.                                  *)
OneNewEdge(H, H2, u, v) ==
    LET e == Len(H.edges) + 1
    IN  /\ Len(H2.edges) = e
        /\ SubSeq(H2.edges, 1, Len(H.edges)) = H.edges
        /\ H2.edges[e].source = u
        /\ H2.edges[e].destination = v
        /\ \A y \in 1 .. Len(H2.vertices) :
              /\ Count(H2.vertices[y].outbound, e) = IF y = u THEN 1 ELSE 0
              /\ Count(H2.vertices[y].inbound, e) = IF y = v THEN 1 ELSE 0

LinkOps == {"LinkToVertex", "LinkFromVertex", "LinkToNewVertex", "LinkFromNewVertex"}

(* C4: in every reachable heap, every link call that succeeds creates      *)
(* exactly one new edge from the asked source u to the asked destination   *)
(* v, which is once in u's outbound list, once in v's inbound list and in  *)
(* no other list; u = v and a pair that is linked already included. The    *)
(* calls are those of a client of Spec, for every vertex and identity.     *)
C4_LinkCreatesOneEdge ==
    \A self \in VertexHandles, w \in Construction.weights, x \in Construction.values :
        /\ \A vertex \in VertexHandles :
              /\ LET r == LinkToVertex(Heap, self, vertex, w, x)
                 IN  r.err = "ok" => OneNewEdge(Heap, r.H, self, vertex)
              /\ LET r == LinkFromVertex(Heap, self, vertex, w, x)
                 IN  r.err = "ok" => OneNewEdge(Heap, r.H, vertex, self)
        /\ \A id \in VertexIDArgs :
              /\ LET r == LinkToNewVertex(Heap, self, id, w, x)
                 IN  r.err = "ok" => OneNewEdge(Heap, r.H, self, r.ret)
              /\ LET r == LinkFromNewVertex(Heap, self, id, w, x)
                 IN  r.err = "ok" => OneNewEdge(Heap, r.H, r.ret, self)

(* A link call succeeded and the heap holds two parallel self-loops.       *)
C4_Witness ==
    /\ last.op \in LinkOps
    /\ last.err = "ok"
    /\ \E e1, e2 \in EdgeHandles :
          /\ e1 # e2
          /\ edges[e1].source = edges[e1].destination
          /\ edges[e2].source = edges[e1].source
          /\ edges[e2].destination = edges[e1].source

(* Graph g holds a vertex with identity id.                                *)
IdentityExists(g, id) ==
    \E v \in VertexHandles : vertices[v].graph = g /\ vertices[v].id = id

(* C5: in every reachable heap, constructing a vertex with a non-None      *)
(* identity that a vertex of the target graph has already (by Vertex with  *)
(* that graph, or by LinkToNewVertex / LinkFromNewVertex of a vertex of    *)
(* that graph) raises, and the heap after it is the heap before it: the    *)
(* graph's length, both its vertex stores and every inbound and outbound   *)
(* list.                                                                   *)
C5_DuplicateIdentityFails ==
    \A g \in GraphHandles, id \in VertexIDs :
        IdentityExists(g, id) =>
            /\ LET r == VertexInit(Heap, id, g)
               IN  r.err # "ok" /\ r.H = Heap /\ GraphLen(r.H, g) = GraphLen(Heap, g)
            /\ \A self \in VerticesOf(Heap, g), w \in EdgeWeightArgs, x \in EdgeValueArgs :
                  /\ LET r == LinkToNewVertex(Heap, self, id, w, x)
                     IN  r.err # "ok" /\ r.H = Heap
                  /\ LET r == LinkFromNewVertex(Heap, self, id, w, x)
                     IN  r.err # "ok" /\ r.H = Heap

(* LinkToNewVertex just failed on an identity in use, in a graph with an   *)
(* edge.                                                                   *)
C5_Witness ==
    /\ last.op = "LinkToNewVertex"
    /\ last.err = "ValueError"
    /\ Len(edges) > 0

(* C6: in every reachable heap, LinkToVertex and LinkFromVertex between    *)
(* two vertices of two distinct graphs raise, and the heap after the call  *)
(* is the heap before it: the lists of both vertices and the stores of     *)
(* both graphs.                                                            *)
C6_CrossGraphLinkFails ==
    \A self, vertex \in VertexHandles, w \in EdgeWeightArgs, x \in EdgeValueArgs :
        vertices[self].graph # vertices[vertex].graph =>
            /\ LET r == LinkToVertex(Heap, self, vertex, w, x)
               IN  r.err # "ok" /\ r.H = Heap
            /\ LET r == LinkFromVertex(Heap, self, vertex, w, x)
               IN  r.err # "ok" /\ r.H = Heap

(* LinkFromVertex just failed between the vertices of two graphs, one of   *)
(* which has an edge.                                                      *)
C6_Witness ==
    /\ last.op = "LinkFromVertex"
    /\ last.err = "Exception"
    /\ Len(graphs) = 2
    /\ Len(edges) > 0

(* C7: in every reachable heap, every vertex is stored exactly once in the *)
(* graph it refers to and in no other graph, the length of every graph is  *)
(* the number of vertices that refer to it, and a vertex that is           *)
(* constructed for graph g refers to g (to a new graph when none is        *)
(* given).                                                                 *)
C7_VertexBelongsToItsGraph ==
    /\ \A v \in VertexHandles, g \in GraphHandles :
          StoredIn(Heap, g, v) = IF vertices[v].graph = g THEN 1 ELSE 0
    /\ \A v \in VertexHandles : vertices[v].graph \in GraphHandles
    /\ \A g \in GraphHandles : GraphLen(Heap, g) = Cardinality(VerticesOf(Heap, g))
    /\ \A id \in VertexIDArgs, g \in GraphHandles \cup {Null} :
          LET r == VertexInit(Heap, id, g)
          IN  r.err = "ok" =>
                 r.H.vertices[r.ret].graph = IF g = Null THEN Len(graphs) + 1 ELSE g

(* A construction just failed, and one graph holds an anonymous vertex and *)
(* a vertex with an identity.                                              *)
C7_Witness ==
    /\ last.err = "ValueError"
    /\ \E g \in GraphHandles :
          /\ Len(graphs[g].verticesWithoutID) = 1
          /\ Cardinality(DOMAIN graphs[g].verticesWithID) = 1

(* The edges of heap H that join u and v, in either direction.             *)
EdgesBetween(H, u, v) ==
    {e \in 1 .. Len(H.edges) :
        \/ H.edges[e].source = u /\ H.edges[e].destination = v
        \/ H.edges[e].source = v /\ H.edges[e].destination = u}

(* Heap H2 is heap H, one new vertex w in the graph of u, and one new edge *)
(* from src to dst.                                                        *)
OneNewVertexLinked(H, H2, u, w, src, dst) ==
    LET g == H.vertices[u].graph
    IN  /\ w = Len(H.vertices) + 1
        /\ Len(H2.vertices) = w
        /\ Len(H2.graphs) = Len(H.graphs)
        /\ H2.vertices[w].graph = g
        /\ StoredIn(H2, g, w) = 1
        /\ \A h \in 1 .. Len(H.graphs) :
              GraphLen(H2, h) = GraphLen(H, h) + IF h = g THEN 1 ELSE 0
        /\ OneNewEdge(H, H2, src, dst)
        /\ EdgesBetween(H2, u, w) = {Len(H2.edges)}

(* C8: in every reachable heap, LinkToNewVertex / LinkFromNewVertex of a   *)
(* vertex u either succeeds, and then returns a new vertex w of u's graph, *)
(* that graph has grown by one vertex, and one new edge from u to w        *)
(* (LinkToNewVertex) or from w to u (LinkFromNewVertex) is the only edge   *)
(* between them; or it fails, and then the heap is as it was. The calls    *)
(* are those of a client of Spec, for every vertex and identity.           *)
C8_LinkNewVertexAtomic ==
    \A self \in VertexHandles, id \in VertexIDArgs,
       w \in Construction.weights, x \in Construction.values :
        /\ LET r == LinkToNewVertex(Heap, self, id, w, x)
           IN  IF r.err = "ok"
               THEN OneNewVertexLinked(Heap, r.H, self, r.ret, self, r.ret)
               ELSE r.H = Heap
        /\ LET r == LinkFromNewVertex(Heap, self, id, w, x)
           IN  IF r.err = "ok"
               THEN OneNewVertexLinked(Heap, r.H, self, r.ret, r.ret, self)
               ELSE r.H = Heap

(* LinkFromNewVertex just succeeded with an identity.                      *)
C8_Witness ==
    /\ last.op = "LinkFromNewVertex"
    /\ last.err = "ok"
    /\ vertices[Len(vertices)].id # None
    /\ Len(vertices[Len(vertices)].outbound) = 1

(* The edges held by the edge storage of graph g: the identity index and   *)
(* the list of edges without identity.                                     *)
StoredEdges(g) ==
    Range(graphs[g].edgesWithoutID)
    \cup {graphs[g].edgesWithID[k] : k \in DOMAIN graphs[g].edgesWithID}

(* The edges whose vertices belong to graph g.                             *)
EdgesOf(g) == {e \in EdgeHandles : vertices[edges[e].source].graph = g}

(* C9: in every reachable heap, the edge storage of every graph holds      *)
(* exactly the edges the link operations created in that graph: an edge    *)
(* with an identity under that identity in the index, an edge without one  *)
(* once in the list.                                                       *)
C9_EdgesStoredInGraph ==
    \A g \in GraphHandles :
        /\ StoredEdges(g) = EdgesOf(g)
        /\ \A e \in EdgesOf(g) :
              IF edges[e].id = None
              THEN Count(graphs[g].edgesWithoutID, e) = 1
              ELSE /\ edges[e].id \in DOMAIN graphs[g].edgesWithID
                   /\ graphs[g].edgesWithID[edges[e].id] = e

(* C10: after a link operation that succeeded, the edge it created has the *)
(* weight and the value the client passed, and no identity.                *)
C10_EdgeKeepsWeightAndValue ==
    (last.op \in LinkOps /\ last.err = "ok") =>
        /\ edges[Len(edges)].weight = last.edgeWeight
        /\ edges[Len(edges)].value = last.edgeValue
        /\ edges[Len(edges)].id = None

(* C11: every algorithm that is not provided fails with the explicit       *)
(* not-implemented error; none returns a result silently.                  *)
C11_AlgorithmsNotImplemented ==
    last.op \in VertexAlgorithms \cup GraphAlgorithms => last.err = "NotImplementedError"

(* C12: in the side-table of every vertex, edge and graph, reading a key   *)
(* returns the value of the most recent assignment to it that no deletion  *)
(* followed, and fails with the lookup error when there is none (never     *)
(* assigned, or deleted since); a table has one entry per key in effect,   *)
(* so that an assignment to a present key adds no second entry.            *)
C12_SideTableIsMap ==
    \A e \in Entities(Heap) :
       /\ Cardinality(DOMAIN Dict(Heap, e)) = Cardinality({t \in written : t.entity = e})
       /\ \A key \in Keys :
             LET r == GetItem(Heap, e, key)
             IN  IF Written(e, key) = {}
                 THEN r.err = "KeyError"
                 ELSE r.err = "ok" /\ Written(e, key) = {[entity |-> e, key |-> key, value |-> r.ret]}

(* A deletion succeeded and an assignment to another key or entity is      *)
(* still in effect.                                                        *)
C12_Witness == last.op = "__delitem__" /\ last.err = "ok" /\ written # {}

(* The heap H2 differs from H in the side-table of entity e at most.       *)
SameButDict(H, H2, e) == [H2 EXCEPT ![e.kind][e.self].dict = Dict(H, e)] = H

(* C13: reading or deleting a key that is absent fails with the lookup     *)
(* error and leaves every side-table and the topology as they were; an     *)
(* assignment or a deletion changes the side-table of its own entity only. *)
C13_AbsentKeyFails ==
    \A e \in Entities(Heap), key \in Keys :
       /\ key \notin DOMAIN Dict(Heap, e) =>
             /\ GetItem(Heap, e, key).err = "KeyError"
             /\ GetItem(Heap, e, key).H = Heap
             /\ DelItem(Heap, e, key).err = "KeyError"
             /\ DelItem(Heap, e, key).H = Heap
       /\ SameButDict(Heap, DelItem(Heap, e, key).H, e)
       /\ \A value \in Values : SameButDict(Heap, SetItem(Heap, e, key, value).H, e)

(* A read of an absent key failed while another side-table has an entry.   *)
C13_Witness == last.op = "__getitem__" /\ last.err = "KeyError" /\ written # {}

(* C14: assigning a value that is not a string to the Name of a graph      *)
(* fails with the type error and leaves every name as it was; assigning a  *)
(* string succeeds, changes the name of that graph only, and the name is   *)
(* read back; no other call changes a name, so that a later read returns   *)
(* the most recently assigned string.                                      *)
C14_NameAssignment ==
    [][\A g \in GraphHandles :
          /\ \A value \in NameArgs \ Names :
                SetName(Heap, g, value).err = "TypeError" /\ SetName(Heap, g, value).H = Heap
          /\ \A value \in Names :
                LET r == SetName(Heap, g, value)
                IN  /\ r.err = "ok"
                    /\ Name(r.H, g).ret = value
                    /\ [r.H EXCEPT !.graphs[g].name = graphs[g].name] = Heap
          /\ graphs'[g].name # graphs[g].name =>
                last'.op = "Name.setter" /\ last'.err = "ok" /\ graphs'[g].name \in Names
      ]_vars

(* An assignment failed on a graph that had been given a name.             *)
C14_Witness ==
    /\ last.op = "Name.setter" /\ last.err = "TypeError"
    /\ \E g \in GraphHandles : graphs[g].name \in Names

(* C15: LinkToVertex and LinkFromVertex called with an argument that is    *)
(* not a Vertex fail at once: no edge is created, no inbound or outbound   *)
(* list and no storage of a graph changes.                                 *)
C15_LinkToNonVertexFails ==
    \A self \in VertexHandles, vertex \in Misuse.others,
       w \in EdgeWeightArgs, x \in EdgeValueArgs :
       /\ LinkToVertex(Heap, self, vertex, w, x).err = "Exception"
       /\ LinkToVertex(Heap, self, vertex, w, x).H = Heap
       /\ LinkFromVertex(Heap, self, vertex, w, x).err = "Exception"
       /\ LinkFromVertex(Heap, self, vertex, w, x).H = Heap

(* A link call failed although all vertices are in one graph (so that the  *)
(* argument was no Vertex), on a vertex that has an edge.                  *)
C15_Witness ==
    /\ last.op = "LinkToVertex" /\ last.err = "Exception"
    /\ Len(graphs) = 1 /\ Len(edges) > 0

EdgesFrom(v) == {e \in EdgeHandles : edges[e].source = v}
EdgesTo(v) == {e \in EdgeHandles : edges[e].destination = v}

(* C16: after any sequence of link operations, for every vertex v, len(v)  *)
(* is the number of edges whose source is v, v is a leaf exactly when no   *)
(* edge has it as source, and a root exactly when no edge has it as        *)
(* destination; a vertex whose only edges are self-loops is neither, and a *)
(* vertex just created is both.                                            *)
C16_LenRootLeaf ==
    /\ \A v \in VertexHandles :
          /\ VertexLen(Heap, v) = Cardinality(EdgesFrom(v))
          /\ IsLeaf(Heap, v) <=> EdgesFrom(v) = {}
          /\ IsRoot(Heap, v) <=> EdgesTo(v) = {}
          /\ (EdgesFrom(v) # {} /\ EdgesFrom(v) = EdgesTo(v)) =>
                ~IsRoot(Heap, v) /\ ~IsLeaf(Heap, v)
    /\ \A vertexID \in Construction.ids, graph \in GraphHandles \cup {Null} :
          LET r == VertexInit(Heap, vertexID, graph)
          IN  r.err = "ok" =>
                IsRoot(r.H, r.ret) /\ IsLeaf(r.H, r.ret) /\ VertexLen(r.H, r.ret) = 0

(* One vertex has self-loops only, another has no edge after a link.       *)
C16_Witness ==
    /\ last.op = "LinkToVertex"
    /\ \E v \in VertexHandles : EdgesFrom(v) # {} /\ EdgesFrom(v) = EdgesTo(v)
    /\ \E v \in VertexHandles : IsRoot(Heap, v) /\ IsLeaf(Heap, v)

(* The edges of the set S in the order of their creation: handles are      *)
(* given in that order.                                                    *)
InCreationOrder(seq, S) ==
    /\ Range(seq) = S
    /\ \A i, j \in 1 .. Len(seq) : i < j => seq[i] < seq[j]

C18_PathExistsTo ==
    last.op = "PathExistsTo" =>
       \A u, d \in VertexHandles :
          LET r == PathExistsTo(Heap, u, d)
          IN  r.err = "ok" /\ r.ret = (d \in Reachable(u))

(* C19: creating an edge with an identity other than None that an edge of  *)
(* the same graph already has fails, and leaves the edge storage of the    *)
(* graph and the inbound and outbound lists as they were.                  *)
C19_DuplicateEdgeIdentityFails ==
    \A source, destination \in VertexHandles, edgeID \in EdgeIDs :
       (\E e \in EdgeHandles :
           /\ edges[e].id = edgeID
           /\ vertices[edges[e].source].graph = vertices[source].graph) =>
          LET r == EdgeInit(Heap, source, destination, edgeID, None, None)
          IN  r.err # "ok" /\ r.H = Heap

(* C20: a step of IterateVertexesBFS or IterateVertexesDFS, from its start *)
(* to its exhaustion, changes nothing in the graph: the vertex storage,    *)
(* the inbound and outbound lists, the source and destination of every     *)
(* edge, the values and the side-tables are what they were.                *)
C20_TraversalIsReadOnly ==
    [][(bfs' # bfs \/ dfs' # dfs) => UNCHANGED <<graphs, vertices, edges>>]_vars

(* A BFS consumed in part: suspended at its second yield, with a vertex    *)
(* still queued.                                                           *)
C20_Witness ==
    bfs.pc = "yield230" /\ Len(bfs.out) = 2 /\ bfs.queue # <<>> /\ Len(edges) = TMaxEdges

(* (major, minor, patch, build) of a is lexicographically less than that   *)
(* of b.                                                                   *)
LexLess(a, b) ==
    \/ a.major < b.major
    \/ a.major = b.major /\ a.minor < b.minor
    \/ a.major = b.major /\ a.minor = b.minor /\ a.patch < b.patch
    \/ a.major = b.major /\ a.minor = b.minor /\ a.patch = b.patch /\ a.build < b.build

AllEqual(a, b) ==
    a.major = b.major /\ a.minor = b.minor /\ a.patch = b.patch /\ a.build = b.build

(* C21: for all SemVersion values a and b, a < b iff the four fields of a  *)
(* are lexicographically less than those of b; a == b iff the four fields  *)
(* are equal; exactly one of a < b, a == b, a > b holds; a <= b iff a < b  *)
(* or a == b; a >= b iff not a < b; a != b iff not a == b.                 *)
C21_SemVersionOrder ==
    \A a \in Bound, b \in Bound :
       LET lt == SemLt(a, b)
           le == SemLe(a, b)
           gt == SemGt(a, b)
           ge == SemGe(a, b)
           eq == SemEq(a, b)
           ne == SemNe(a, b)
       IN  /\ \A r \in {lt, le, gt, ge, eq, ne} : r.err = "ok"
           /\ lt.ret <=> LexLess(a, b)
           /\ eq.ret <=> AllEqual(a, b)
           /\ \/ lt.ret /\ ~eq.ret /\ ~gt.ret
              \/ ~lt.ret /\ eq.ret /\ ~gt.ret
              \/ ~lt.ret /\ ~eq.ret /\ gt.ret
           /\ le.ret <=> (lt.ret \/ eq.ret)
           /\ ge.ret <=> ~lt.ret
           /\ ne.ret <=> ~eq.ret

(* Two equal versions were compared with <=, and it returned True.         *)
C21_Witness ==
    /\ sem.op = "__le__" /\ sem.err = "ok" /\ sem.ret
    /\ DOMAIN sem.env = VersionNames
    /\ sem.env["a"] = sem.env["b"]

C23_TraversalTerminates ==
    /\ [](Len(bfs.out) <= Len(vertices) /\ Len(dfs.out) <= Len(vertices))
    /\ (bfs.pc # "idle") ~> (bfs.pc = "done")
    /\ (dfs.pc # "idle") ~> (dfs.pc = "done")

(* A DFS is exhausted on a graph with a cycle of two vertices.             *)
C23_Witness ==
    /\ dfs.pc = "done" /\ Len(dfs.out) = 2
    /\ \E e1, e2 \in EdgeHandles :
          /\ edges[e1].source # edges[e1].destination
          /\ edges[e1].source = edges[e2].destination
          /\ edges[e1].destination = edges[e2].source

(* C24: after any sequence of constructions and link operations, failed    *)
(* ones included, every edge in a list of a vertex has its source and its  *)
(* destination in the graph of that vertex, every edge in the outbound     *)
(* list of u has source u, every edge in the inbound list of v has         *)
(* destination v, and an edge is in the outbound list of its source iff it *)
(* is in the inbound list of its destination.                              *)
C24_EdgeListsConsistent ==
    /\ \A v \in VertexHandles :
          /\ \A e \in Range(vertices[v].outbound) \cup Range(vertices[v].inbound) :
                /\ vertices[edges[e].source].graph = vertices[v].graph
                /\ vertices[edges[e].destination].graph = vertices[v].graph
          /\ \A e \in Range(vertices[v].outbound) : edges[e].source = v
          /\ \A e \in Range(vertices[v].inbound) : edges[e].destination = v
    /\ \A e \in EdgeHandles :
          e \in Range(vertices[edges[e].source].outbound)
             <=> e \in Range(vertices[edges[e].destination].inbound)

(* A call failed, and an edge links two different vertices.                *)
C24_Witness ==
    /\ last.err # "ok"
    /\ \E e \in EdgeHandles : edges[e].source # edges[e].destination

(* C25: constructing an Edge with a source or a destination that is not a  *)
(* Vertex fails with TypeError, whichever of the two it is, whatever the   *)
(* graphs of the arguments are.                                            *)
C25_EdgeOfNonVertexTypeError ==
    last.op = "Edge" =>
       \A source, destination \in VertexHandles \cup Misuse.others :
          (~IsVertex(Heap, source) \/ ~IsVertex(Heap, destination)) =>
             EdgeInit(Heap, source, destination, None, None, None).err = "TypeError"

(* C29: in every reachable state the name of a graph is None or a string;  *)
(* a name that is no string is rejected with the type error by the         *)
(* constructor of Graph as it is by the Name property.                     *)
C29_NameNoneOrString ==
    /\ \A g \in GraphHandles : graphs[g].name = None \/ IsStr(graphs[g].name)
    /\ last.op = "Graph" =>
          \A name \in NameArgs \ (Names \cup {None}) :
             NewGraphInit(Heap, name).err = "TypeError"

(* The vertices whose list iterators are on the stack, bottom first.       *)
StackVertices == [k \in 1 .. Len(dfs.stack) |-> dfs.stack[k].vertex]

(* C26: in every state of IterateVertexesDFS the stack of iterators is a   *)
(* simple path from the start vertex: the bottom iterator is over the      *)
(* outbound edges of the start vertex, every other one over those of a     *)
(* destination of an edge of the vertex below it, the vertices of the      *)
(* iterators are distinct and visited, and the stack is no deeper than the *)
(* number of visited vertices.                                             *)
C26_DFSStackIsPath ==
    /\ Len(dfs.stack) > 0 => StackVertices[1] = dfs.self
    /\ \A k \in 2 .. Len(dfs.stack) : StackVertices[k] \in Successors(StackVertices[k - 1])
    /\ NoDuplicates(StackVertices)
    /\ Range(StackVertices) \subseteq dfs.visited
    /\ Len(dfs.stack) <= Cardinality(dfs.visited)

(* A third vertex was just yielded from the iterator of the second.        *)
C26_Witness ==
    /\ dfs.pc = "yield252" /\ Len(dfs.stack) = 2 /\ Len(dfs.out) = 3
    /\ dfs.vertex \in Successors(StackVertices[2])

(* C27: after any sequence of vertex constructions, failed ones included,  *)
(* every key of the identity index of a graph maps to a vertex with that   *)
(* identity, every vertex in the list of anonymous vertices has the        *)
(* identity None, no vertex is in both stores or twice in one, and two     *)
(* vertices of one graph never share an identity other than None.          *)
C27_VertexIndexConsistent ==
    \A g \in GraphHandles :
       LET index == graphs[g].verticesWithID
           list  == graphs[g].verticesWithoutID
       IN  /\ \A k \in DOMAIN index : vertices[index[k]].id = k
           /\ \A v \in Range(list) : vertices[v].id = None
           /\ NoDuplicates(list)
           /\ \A j, k \in DOMAIN index : index[j] = index[k] => j = k
           /\ Range(list) \cap {index[k] : k \in DOMAIN index} = {}
           /\ \A u, v \in VerticesOf(Heap, g) :
                 (u # v /\ vertices[u].id # None) => vertices[u].id # vertices[v].id

(* A construction failed in a graph whose index holds two identities.      *)
C27_Witness ==
    /\ last.op = "Vertex" /\ last.err = "ValueError"
    /\ \E g \in GraphHandles : Cardinality(DOMAIN graphs[g].verticesWithID) = 2

(* Vertex v of heap H is the only vertex of a graph that heap H0 does not  *)
(* have.                                                                   *)
AloneInNewGraph(H0, H, v) ==
    LET g == H.vertices[v].graph
    IN  /\ g = Len(H0.graphs) + 1
        /\ Len(H.graphs) = g
        /\ GraphLen(H, g) = 1
        /\ VerticesOf(H, g) = {v}

(* In heap H the vertices u and v are in one graph and can be linked in    *)
(* both directions.                                                        *)
Linkable(H, u, v) ==
    /\ H.vertices[u].graph = H.vertices[v].graph
    /\ LinkToVertex(H, u, v, None, None).err = "ok"
    /\ LinkFromVertex(H, u, v, None, None).err = "ok"

(* C28: a vertex constructed without a graph is the only vertex of a new   *)
(* graph, of length 1; two vertices constructed that way are in different  *)
(* graphs, and LinkToVertex and LinkFromVertex between them fail with the  *)
(* cross-graph error; a vertex created by LinkToNewVertex or               *)
(* LinkFromNewVertex is in the graph of the vertex it was created from,    *)
(* and the two can be linked.                                              *)
C28_DefaultGraphIsNew ==
    /\ \A id1 \in Construction.ids, id2 \in Construction.ids :
          LET r1 == VertexInit(Heap, id1, Null)
              r2 == VertexInit(r1.H, id2, Null)
          IN  /\ r1.err = "ok" /\ AloneInNewGraph(Heap, r1.H, r1.ret)
              /\ r2.err = "ok" /\ AloneInNewGraph(r1.H, r2.H, r2.ret)
              /\ r2.H.vertices[r1.ret].graph # r2.H.vertices[r2.ret].graph
              /\ LinkToVertex(r2.H, r1.ret, r2.ret, None, None).err = "Exception"
              /\ LinkFromVertex(r2.H, r1.ret, r2.ret, None, None).err = "Exception"
    /\ \A self \in VertexHandles, id \in Construction.ids :
          /\ LET r == LinkToNewVertex(Heap, self, id, None, None)
             IN  r.err = "ok" => Linkable(r.H, self, r.ret)
          /\ LET r == LinkFromNewVertex(Heap, self, id, None, None)
             IN  r.err = "ok" => Linkable(r.H, self, r.ret)

(* Two vertices, each alone in its graph, and a link between them failed.  *)
C28_Witness ==
    /\ last.op \in {"LinkToVertex", "LinkFromVertex"} /\ last.err = "Exception"
    /\ Len(graphs) = 2 /\ GraphLen(Heap, 1) = 1 /\ GraphLen(Heap, 2) = 1

(* The part of index k of a list of numbers, 0 when the list is shorter.   *)
PartOrZero(parts, k) == IF k <= Len(parts) THEN parts[k] ELSE 0

(* C30: a SemVersion constructed from a version string with one of the     *)
(* prefixes V, v, I, i, R, r, rev, REV, or with none, before one to four   *)
(* numbers joined by dots has these numbers as major, minor, patch and     *)
(* build, 0 for those that are missing; the empty string and None are      *)
(* rejected with ValueError.                                               *)
C30_VersionStringParsed ==
    sem.op = "SemVersion(versionString)" =>
       /\ \A prefix \in Prefixes, parts \in PartLists :
             LET r == SemVersionInit(prefix \o Join(parts))
             IN  /\ r.err = "ok"
                 /\ r.ret.major = PartOrZero(parts, 1)
                 /\ r.ret.minor = PartOrZero(parts, 2)
                 /\ r.ret.patch = PartOrZero(parts, 3)
                 /\ r.ret.build = PartOrZero(parts, 4)
       /\ SemVersionInit(<<>>).err = "ValueError"
       /\ SemVersionInit(NoString).err = "ValueError"

====
